---- MODULE Spec2Model ----
(***************************************************************************)
(* A model of LibraryDatabase (src/database.py): one sqlite table "books"  *)
(* behind a facade whose every method opens its own connection, runs its   *)
(* statements and commits.  The store is the committed content of the      *)
(* database file: the rows of "books" and the AUTOINCREMENT counter kept   *)
(* in sqlite_sequence.  In Spec and SpecEdit calls are sequential: one     *)
(* action is one complete method call, and the variable "last" records     *)
(* that call, its arguments and its outcome.  In SpecConcurrent the calls  *)
(* of borrow_book and get_stats by concurrent callers are taken one        *)
(* statement at a time, and "threads" records how far each has come.       *)
(*                                                                         *)
(* No method closes its connection on the path where a statement raises.   *)
(* sqlite3 begins a transaction before INSERT, UPDATE and DELETE, so the   *)
(* connection add_book abandons when INSERT fails a NOT NULL constraint    *)
(* still holds the write lock of the file (python 3.11: the connection is  *)
(* part of a reference cycle and lives until the cyclic collector runs).   *)
(* Until then every INSERT, UPDATE and DELETE of another connection fails  *)
(* with sqlite3.OperationalError "database is locked"; SELECT and CREATE   *)
(* TABLE IF NOT EXISTS still run.  "locked" is that lock, and the action   *)
(* collect is the collector closing the abandoned connection, at a time    *)
(* the program does not choose.                                            *)
(***************************************************************************)
EXTENDS Integers, Sequences, FiniteSets, TLC

VARIABLES
    books,   \* the rows of table books, by rowid
    seq,     \* sqlite_sequence.seq for books: the largest rowid ever inserted
    locked,  \* an abandoned connection holds an uncommitted write transaction
    issued,  \* history: the ids add_book has returned so far
    onLoan,  \* history: the ids borrowed and not made available since
    last,    \* the last call: method, arguments, outcome
    schema,  \* the names of the tables of the database file
    threads  \* the calls of concurrent callers that are under way

vars == <<books, seq, locked, issued, onLoan, last, schema, threads>>

(***************************************************************************)
(* Bounds of the model.                                                    *)
(***************************************************************************)
\* The largest id AUTOINCREMENT hands out before add_book stops inserting.
MaxId == 2

(***************************************************************************)
(* Python values.  Every value carries its type, so that None, an int, a   *)
(* str and a bool are different values that can be compared.  A str is the *)
(* sequence of its characters.                                             *)
(***************************************************************************)
None == [type |-> "NoneType"]
int(n) == [type |-> "int", val |-> n]
str(s) == [type |-> "str", val |-> s]
bool(b) == [type |-> "bool", val |-> b]
tuple(t) == [type |-> "tuple", val |-> t]
list(l) == [type |-> "list", val |-> l]
dict(d) == [type |-> "dict", val |-> d]
True == bool(TRUE)
False == bool(FALSE)

\* t[i] of Python: indices start at 0.
Item(t, i) == t.val[i + 1]

\* a == b of Python: a bool is the int 0 or 1.
Number(v) == IF v.type = "bool" THEN (IF v.val THEN 1 ELSE 0) ELSE v.val
PyEq(a, b) ==
    IF a.type \in {"bool", "int"} /\ b.type \in {"bool", "int"}
    THEN Number(a) = Number(b)
    ELSE a = b

(***************************************************************************)
(* The argument values the calls are tried with.  A set of argument        *)
(* records is the product of one set of values per parameter.              *)
(***************************************************************************)
Title1 == <<"D", "u">>
Title2 == <<"E", "m">>
Author1 == <<"H", "e">>
Author2 == <<"A", "u">>
Genre1 == <<"S", "f">>
Description1 == <<"e", "p">>

\* available: the flag values 0 and 1 of the docstrings, and an integer that
\* is neither.
Flags == {int(0), int(1), int(2)}
\* 0 is never a rowid; 1..MaxId may or may not be one at the time of the call.
BookIdArgs == 0..MaxId

\* add_book without a title, without an author, without both, and with both.
RequiredArgs ==
    [title : {None, str(Title1)}, author : {None, str(Author1)},
     genre : {None}, description : {None}, available : {int(1)}]

\* Several books at a time: the rows vary in available.
LibraryAddArgs ==
    RequiredArgs \cup
    [title : {str(Title1)}, author : {str(Author1)}, genre : {None},
     description : {None}, available : Flags]
LibraryUpdateArgs ==
    [title : {None}, author : {None}, genre : {None},
     description : {None}, available : {None} \cup Flags]
LibraryFlagArgs == Flags

\* One book at a time: every column varies.
EditAddArgs ==
    RequiredArgs \cup
    [title : {str(Title1)}, author : {str(Author1)},
     genre : {None, str(Genre1)}, description : {None, str(Description1)},
     available : {int(1), False}]
\* update_book with no field, with one field, with two and with all five.
EditAllArgs ==
    [title |-> str(Title2), author |-> str(Author2), genre |-> str(Genre1),
     description |-> str(Description1), available |-> int(0)]
EditNoArgs ==
    [title |-> None, author |-> None, genre |-> None, description |-> None,
     available |-> None]
EditUpdateArgs ==
    {EditNoArgs, EditAllArgs}
    \cup {[EditNoArgs EXCEPT ![c] = EditAllArgs[c]] : c \in DOMAIN EditAllArgs}
    \cup {[EditNoArgs EXCEPT !.author = EditAllArgs.author,
                             !.genre = EditAllArgs.genre]}
EditFlagArgs == {int(1)}

\* Concurrent callers: books added with a title, an author and the default flag.
ConcurrentAddArgs ==
    [title : {str(Title1)}, author : {str(Author1)}, genre : {None},
     description : {None}, available : {int(1)}]

\* search_term: the empty string, part of a title and of an author in the
\* other case, a whole title in upper case, a string in no title or author,
\* and the two characters LIKE reads as wildcards.
SearchTermArgs ==
    {str(<< >>), str(<<"U">>), str(<<"D", "U">>), str(<<"x">>),
     str(<<"_">>), str(<<"%">>)}
\* Several books at a time: the empty string and a wildcard.
LibrarySearchArgs == {str(<< >>), str(<<"_">>)}

(***************************************************************************)
(* The table.  books maps each rowid present to its row; Columns are the   *)
(* columns of a row besides id, in the order of CREATE TABLE.              *)
(***************************************************************************)
Columns == <<"title", "author", "genre", "description", "available">>
\* title TEXT NOT NULL, author TEXT NOT NULL
NotNullColumns == {"title", "author"}

\* A parameter as sqlite3 binds it into a statement: None is NULL, an int
\* an INTEGER, a str a TEXT, and a bool the INTEGER 0 or 1.
Bind(v) == IF v.type = "bool" THEN int(Number(v)) ELSE v

\* SELECT author, title, ...: the two TEXT NOT NULL columns in the other order.
MutRowTuple_AuthorFirst(id, row) ==
    tuple(<<int(id), row.author, row.title, row.genre, row.description,
            row.available>>)

\* A row as "SELECT *" returns it: (id, title, author, genre, description, available).
RowTuple(id, row) ==
    tuple(<<int(id)>> \o [i \in 1..Len(Columns) |-> row[Columns[i]]])

\* cursor.execute("SELECT * FROM books WHERE id = ?"); cursor.fetchone()
SelectById(b, id) ==
    IF id \in DOMAIN b THEN RowTuple(id, b[id]) ELSE None

\* The letters LIKE compares without regard to case: those of ASCII.
AsciiUpper ==
    <<"A", "B", "C", "D", "E", "F", "G", "H", "I", "J", "K", "L", "M",
      "N", "O", "P", "Q", "R", "S", "T", "U", "V", "W", "X", "Y", "Z">>
AsciiLower ==
    <<"a", "b", "c", "d", "e", "f", "g", "h", "i", "j", "k", "l", "m",
      "n", "o", "p", "q", "r", "s", "t", "u", "v", "w", "x", "y", "z">>
Lower(c) ==
    IF \E i \in 1..Len(AsciiUpper) : AsciiUpper[i] = c
    THEN AsciiLower[CHOOSE i \in 1..Len(AsciiUpper) : AsciiUpper[i] = c]
    ELSE c

\* text LIKE pattern: "%" matches any run of characters, "_" any one
\* character, a letter of ASCII itself in either case, any other character
\* itself.
RECURSIVE Like(_, _)
Like(pattern, text) ==
    IF pattern = << >> THEN text = << >>
    ELSE IF Head(pattern) = "%"
    THEN Like(Tail(pattern), text) \/ (text # << >> /\ Like(pattern, Tail(text)))
    ELSE IF text = << >> THEN FALSE
    ELSE IF Head(pattern) = "_" THEN Like(Tail(pattern), Tail(text))
    ELSE Lower(Head(pattern)) = Lower(Head(text))
         /\ Like(Tail(pattern), Tail(text))

\* value LIKE pattern in a WHERE clause: NULL LIKE pattern is not true.
NullSafeLike(pattern, value) == value # None /\ Like(pattern, value.val)

\* cursor.execute("SELECT * FROM books WHERE ..."); cursor.fetchall() --
\* the rows the WHERE clause selects, in the order of their rowid.
SelectWhere(b, selected) ==
    LET n == IF DOMAIN b = {} THEN 0
             ELSE CHOOSE i \in DOMAIN b : \A j \in DOMAIN b : j <= i
        ids == SelectSeq([i \in 1..n |-> i], LAMBDA i : i \in selected)
    IN  list([k \in 1..Len(ids) |-> RowTuple(ids[k], b[ids[k]])])

\* SELECT * FROM books WHERE title LIKE ? OR author LIKE ?
SelectWhereLike(b, pattern) ==
    SelectWhere(b, {id \in DOMAIN b : \/ NullSafeLike(pattern, b[id].title)
                                      \/ NullSafeLike(pattern, b[id].author)})

\* cursor.execute("SELECT COUNT(*) FROM books"); cursor.fetchone()[0]
SelectCount(b) == int(Cardinality(DOMAIN b))

\* SELECT COUNT(*) FROM books WHERE available >= <flag>
MutSelectCountWhereAvailable_AtLeast(b, flag) ==
    int(Cardinality({id \in DOMAIN b : b[id].available.val >= flag}))

\* cursor.execute("SELECT COUNT(*) FROM books WHERE available = <flag>");
\* cursor.fetchone()[0] -- a NULL flag equals no value.
SelectCountWhereAvailable(b, flag) ==
    int(Cardinality({id \in DOMAIN b : b[id].available = int(flag)}))

\* A schema that declares title NOT NULL and forgets it for author.
MutViolatesNotNull_TitleOnly(row) == row.title = None

\* The NOT NULL constraints of the schema, checked by INSERT.
ViolatesNotNull(row) == \E c \in NotNullColumns : row[c] = None

\* INTEGER PRIMARY KEY without AUTOINCREMENT: one more than the largest
\* rowid now in the table.
MutNextRowId_NoAutoincrement(b, s) ==
    IF DOMAIN b = {} THEN 1
    ELSE 1 + CHOOSE i \in DOMAIN b : \A j \in DOMAIN b : j <= i

\* The rowid AUTOINCREMENT gives the next inserted row: one more than the
\* largest rowid the table has ever held.
NextRowId(b, s) ==
    LET m == IF DOMAIN b = {} THEN 0
             ELSE CHOOSE i \in DOMAIN b : \A j \in DOMAIN b : j <= i
    IN  (IF s > m THEN s ELSE m) + 1

\* UPDATE books SET <assignments> without WHERE: every row is updated.
MutUpdateWhereId_EveryRow(b, id, assignments) ==
    [rows |-> [r \in DOMAIN b |->
                 [c \in DOMAIN b[r] |->
                    IF \E k \in 1..Len(assignments) : assignments[k][1] = c
                    THEN LET k == CHOOSE k \in 1..Len(assignments) :
                                     assignments[k][1] = c
                         IN  Bind(assignments[k][2])
                    ELSE b[r][c]]],
     rowcount |-> Cardinality(DOMAIN b)]

\* UPDATE books SET <assignments> WHERE id = ?  -- assignments is a sequence
\* of <<column, value>>; the result is the new table and cursor.rowcount.
UpdateWhereId(b, id, assignments) ==
    IF id \in DOMAIN b
    THEN [rows |-> [b EXCEPT ![id] =
                      [c \in DOMAIN b[id] |->
                         IF \E k \in 1..Len(assignments) : assignments[k][1] = c
                         THEN LET k == CHOOSE k \in 1..Len(assignments) :
                                          assignments[k][1] = c
                              IN  Bind(assignments[k][2])
                         ELSE b[id][c]]],
          rowcount |-> 1]
    ELSE [rows |-> b, rowcount |-> 0]

\* DELETE FROM books WHERE id = ?
DeleteWhereId(b, id) ==
    IF id \in DOMAIN b
    THEN [rows |-> [i \in DOMAIN b \ {id} |-> b[i]], rowcount |-> 1]
    ELSE [rows |-> b, rowcount |-> 0]

(***************************************************************************)
(* The record of a call: the method, its arguments (None where the method  *)
(* has no such parameter), what it returned or the exception it raised     *)
(* ("" for none), and the connections it opened and closed.  tick          *)
(* alternates, so that a call is a step even when it repeats the call      *)
(* before it with the same outcome.  An action binds r to the result of    *)
(* the method's body: the table it leaves, and the outcome.                *)
(***************************************************************************)
NoArgs ==
    [book_id |-> None, title |-> None, author |-> None, genre |-> None,
     description |-> None, available |-> None, search_term |-> None]

Call(op, args, ret, exc, opened, closed) ==
    [op |-> op, args |-> args, ret |-> ret, exc |-> exc,
     opened |-> opened, closed |-> closed, tick |-> 1 - last.tick]

\* The outcome of a body that returns ret, having closed its connections.
Returns(rows, ret, conns) ==
    [rows |-> rows, ret |-> ret, exc |-> "", opened |-> conns, closed |-> conns]

\* The outcome of a body whose last statement raises: execute() propagates
\* the exception, commit() and close() are not reached, the table is as it was.
Raises(rows, exc, conns) ==
    [rows |-> rows, ret |-> None, exc |-> exc, opened |-> conns,
     closed |-> conns - 1]

\* CREATE TABLE books (...) without IF NOT EXISTS: an error when the table
\* is there.
MutCreateTable_NoIfNotExists(sch, b, s) ==
    IF "books" \in sch
    THEN Raises(b, "OperationalError", 1) @@ [schema |-> sch, seq |-> s]
    ELSE Returns(<< >>, None, 1)
         @@ [schema |-> sch \cup {"books", "sqlite_sequence"}, seq |-> 0]

\* The body of create_table on a file with tables sch: CREATE TABLE IF NOT
\* EXISTS does nothing when books is there, and otherwise creates it empty,
\* and with it sqlite_sequence, where its AUTOINCREMENT counter is kept.
CreateTable(sch, b, s) ==
    IF "books" \in sch
    THEN Returns(b, None, 1) @@ [schema |-> sch, seq |-> s]
    ELSE Returns(<< >>, None, 1)
         @@ [schema |-> sch \cup {"books", "sqlite_sequence"}, seq |-> 0]

\* The concurrent callers, each with its own LibraryDatabase on the file.
\* A caller is at pc in the method op it called, with the locals it has
\* assigned so far, and at "done" with what the method returned.
Threads == {"t1", "t2"}
StatsThreads == {"t1"}
Idle == [pc |-> "idle", op |-> "", book_id |-> None, book |-> None,
         counts |-> << >>, ret |-> None, exc |-> ""]

\* LibraryDatabase(db_name) on a file that does not exist yet.
Init ==
    /\ books = CreateTable({}, << >>, 0).rows
    /\ seq = CreateTable({}, << >>, 0).seq
    /\ schema = CreateTable({}, << >>, 0).schema
    /\ locked = FALSE
    /\ issued = {}
    /\ onLoan = {}
    /\ threads = [t \in Threads |-> Idle]
    /\ last = [op |-> "__init__", args |-> NoArgs, ret |-> None, exc |-> "",
               opened |-> 1, closed |-> 1, tick |-> 0]

\* LibraryDatabase(db_name) on the same file again.
create_table ==
    \E r \in {CreateTable(schema, books, seq)} :
        /\ books' = r.rows
        /\ seq' = r.seq
        /\ schema' = r.schema
        /\ UNCHANGED <<locked, issued, onLoan, threads>>
        /\ last' = Call("__init__", NoArgs, r.ret, r.exc, r.opened, r.closed)

\* The body of add_book on table b with counter s, lk the write lock held by
\* an abandoned connection.  rowid is the id INSERT assigns.
AddBook(b, s, lk, row) ==
    LET book_id == NextRowId(b, s)
    IN  IF lk
        THEN Raises(b, "OperationalError", 1) @@ [seq |-> s, lock |-> lk]
        ELSE IF ViolatesNotNull(row)
        THEN Raises(b, "IntegrityError", 1) @@ [seq |-> s, lock |-> TRUE]
        ELSE Returns((book_id :> [c \in DOMAIN row |-> Bind(row[c])]) @@ b,
                     int(book_id), 1)
             @@ [seq |-> book_id, lock |-> lk]

add_book(title, author, genre, description, available) ==
    \E r \in {AddBook(books, seq, locked,
                      [title |-> title, author |-> author, genre |-> genre,
                       description |-> description, available |-> available])} :
        /\ r.seq <= MaxId
        /\ books' = r.rows
        /\ seq' = r.seq
        /\ locked' = r.lock
        /\ issued' = IF r.exc = "" THEN issued \cup {r.ret.val} ELSE issued
        /\ UNCHANGED <<onLoan, schema, threads>>
        /\ last' = Call("add_book",
                        [NoArgs EXCEPT !.title = title, !.author = author,
                                       !.genre = genre,
                                       !.description = description,
                                       !.available = available],
                        r.ret, r.exc, r.opened, r.closed)

get_book_by_id(book_id) ==
    /\ UNCHANGED <<books, seq, locked, issued, onLoan, schema, threads>>
    /\ last' = Call("get_book_by_id", [NoArgs EXCEPT !.book_id = int(book_id)],
                    SelectById(books, book_id), "", 1, 1)

\* The ids on loan after a call on book_id: borrow_book adds the id when it
\* returns True (lent); the id leaves when a call has written the flag of
\* its row (flagged).  Nothing else changes it, delete_book included.
Loans(loans, book_id, lent, flagged) ==
    IF lent THEN loans \cup {book_id}
    ELSE IF flagged THEN loans \ {book_id}
    ELSE loans

\* UPDATE books SET available = ? WHERE id = ? AND available <> ?: a write
\* that finds the flag already written affects no row.
MutUpdateAvailability_Conditional(b, lk, book_id, available) ==
    IF lk
    THEN Raises(b, "OperationalError", 1)
    ELSE IF book_id \in DOMAIN b /\ b[book_id].available = available
    THEN Returns(b, False, 1)
    ELSE LET u == UpdateWhereId(b, book_id, << <<"available", available>> >>)
         IN  Returns(u.rows, bool(u.rowcount > 0), 1)

\* The body of update_availability.
UpdateAvailability(b, lk, book_id, available) ==
    IF lk
    THEN Raises(b, "OperationalError", 1)
    ELSE LET u == UpdateWhereId(b, book_id, << <<"available", available>> >>)
         IN  Returns(u.rows, bool(u.rowcount > 0), 1)

update_availability(book_id, available) ==
    \E r \in {UpdateAvailability(books, locked, book_id, available)} :
        /\ books' = r.rows
        /\ onLoan' = Loans(onLoan, book_id, FALSE, r.ret = True)
        /\ UNCHANGED <<seq, locked, issued, schema, threads>>
        /\ last' = Call("update_availability",
                        [NoArgs EXCEPT !.book_id = int(book_id),
                                       !.available = available],
                        r.ret, r.exc, r.opened, r.closed)

\* borrow_book without "if book[5] == 0: return False".
MutBorrowBook_NoGuard(b, lk, book_id) ==
    LET book == SelectById(b, book_id)
    IN  IF book = None
        THEN Returns(b, False, 1)
        ELSE LET u == UpdateAvailability(b, lk, book_id, int(0))
             IN  [u EXCEPT !.opened = @ + 1, !.closed = @ + 1]

\* The body of borrow_book: get_book_by_id, the two checks, then
\* update_availability(book_id, 0) on a second connection.
BorrowBook(b, lk, book_id) ==
    LET book == SelectById(b, book_id)
    IN  IF book = None
        THEN Returns(b, False, 1)
        ELSE IF Item(book, 5) = int(0)
        THEN Returns(b, False, 1)
        ELSE LET u == UpdateAvailability(b, lk, book_id, int(0))
             IN  [u EXCEPT !.opened = @ + 1, !.closed = @ + 1]

borrow_book(book_id) ==
    \E r \in {BorrowBook(books, locked, book_id)} :
        /\ books' = r.rows
        /\ onLoan' = Loans(onLoan, book_id, r.ret = True, FALSE)
        /\ UNCHANGED <<seq, locked, issued, schema, threads>>
        /\ last' = Call("borrow_book", [NoArgs EXCEPT !.book_id = int(book_id)],
                        r.ret, r.exc, r.opened, r.closed)

\* The body of return_book: update_availability(book_id, 1).
ReturnBook(b, lk, book_id) == UpdateAvailability(b, lk, book_id, int(1))

return_book(book_id) ==
    \E r \in {ReturnBook(books, locked, book_id)} :
        /\ books' = r.rows
        /\ onLoan' = Loans(onLoan, book_id, FALSE, r.ret = True)
        /\ UNCHANGED <<seq, locked, issued, schema, threads>>
        /\ last' = Call("return_book", [NoArgs EXCEPT !.book_id = int(book_id)],
                        r.ret, r.exc, r.opened, r.closed)

\* update_book without any "is not None": every column is always set.
MutUpdates_NoneIsValue(args) ==
    [i \in 1..Len(Columns) |-> <<Columns[i], args[Columns[i]]>>]

\* update_book without "if available is not None": available is always set.
MutUpdates_AvailableAlways(args) ==
    SelectSeq([i \in 1..Len(Columns) |-> <<Columns[i], args[Columns[i]]>>],
              LAMBDA p : p[2] # None \/ p[1] = "available")

\* The lists "updates" and "values" update_book builds, as one sequence of
\* <<column, value>>: a parameter that is None adds nothing.
Updates(args) ==
    SelectSeq([i \in 1..Len(Columns) |-> <<Columns[i], args[Columns[i]]>>],
              LAMBDA p : p[2] # None)

\* The body of update_book.  With nothing to update it returns False before
\* any statement, and without closing its connection.
UpdateBook(b, lk, book_id, args) ==
    LET updates == Updates(args)
    IN  IF updates = << >>
        THEN [Returns(b, False, 1) EXCEPT !.closed = 0]
        ELSE IF lk
        THEN Raises(b, "OperationalError", 1)
        ELSE Returns(UpdateWhereId(b, book_id, updates).rows, True, 1)

update_book(book_id, args) ==
    \E r \in {UpdateBook(books, locked, book_id, args)} :
        /\ books' = r.rows
        /\ onLoan' = Loans(onLoan, book_id, FALSE,
                          /\ r.ret = True
                          /\ args.available # None
                          /\ book_id \in DOMAIN books)
        /\ UNCHANGED <<seq, locked, issued, schema, threads>>
        /\ last' = Call("update_book",
                        [NoArgs EXCEPT !.book_id = int(book_id),
                                       !.title = args.title,
                                       !.author = args.author,
                                       !.genre = args.genre,
                                       !.description = args.description,
                                       !.available = args.available],
                        r.ret, r.exc, r.opened, r.closed)

\* The body of delete_book.
DeleteBook(b, lk, book_id) ==
    IF lk
    THEN Raises(b, "OperationalError", 1)
    ELSE LET d == DeleteWhereId(b, book_id)
         IN  Returns(d.rows, bool(d.rowcount > 0), 1)

delete_book(book_id) ==
    \E r \in {DeleteBook(books, locked, book_id)} :
        /\ books' = r.rows
        /\ UNCHANGED <<seq, locked, issued, onLoan, schema, threads>>
        /\ last' = Call("delete_book", [NoArgs EXCEPT !.book_id = int(book_id)],
                        r.ret, r.exc, r.opened, r.closed)

\* The body of get_all_books.
GetAllBooks(b) == SelectWhere(b, DOMAIN b)

get_all_books ==
    /\ UNCHANGED <<books, seq, locked, issued, onLoan, schema, threads>>
    /\ last' = Call("get_all_books", NoArgs, GetAllBooks(books), "", 1, 1)

\* The body of get_available_books: WHERE available = 1.
GetAvailableBooks(b) ==
    SelectWhere(b, {id \in DOMAIN b : b[id].available = int(1)})

get_available_books ==
    /\ UNCHANGED <<books, seq, locked, issued, onLoan, schema, threads>>
    /\ last' = Call("get_available_books", NoArgs, GetAvailableBooks(books),
                    "", 1, 1)

\* The body of search_books: search_pattern = f"%{search_term}%".
SearchBooks(b, search_term) ==
    SelectWhereLike(b, <<"%">> \o search_term.val \o <<"%">>)

search_books(search_term) ==
    /\ UNCHANGED <<books, seq, locked, issued, onLoan, schema, threads>>
    /\ last' = Call("search_books", [NoArgs EXCEPT !.search_term = search_term],
                    SearchBooks(books, search_term), "", 1, 1)

\* The body of get_stats: the three counts, one statement each.
GetStats(b) ==
    dict([total |-> SelectCount(b),
          available |-> SelectCountWhereAvailable(b, 1),
          borrowed |-> SelectCountWhereAvailable(b, 0)])

get_stats ==
    /\ UNCHANGED <<books, seq, locked, issued, onLoan, schema, threads>>
    /\ last' = Call("get_stats", NoArgs, GetStats(books), "", 1, 1)

\* borrow_book up to its call of update_availability, by caller t:
\* get_book_by_id and the two checks on the row it returned.
borrow_book_get_book_by_id(t, book_id) ==
    /\ threads[t].pc = "idle"
    /\ LET book == SelectById(books, book_id)
           refused == IF book = None THEN TRUE ELSE Item(book, 5) = int(0)
       IN  threads' = [threads EXCEPT ![t] =
                          [Idle EXCEPT !.op = "borrow_book",
                                       !.book_id = int(book_id),
                                       !.book = book,
                                       !.ret = IF refused THEN False ELSE None,
                                       !.pc = IF refused THEN "done"
                                              ELSE "update_availability"]]
    /\ UNCHANGED <<books, seq, locked, issued, onLoan, last, schema>>

\* The rest of borrow_book: return self.update_availability(book_id, 0).
borrow_book_update_availability(t) ==
    /\ threads[t].pc = "update_availability"
    /\ \E r \in {UpdateAvailability(books, locked, threads[t].book_id.val,
                                     int(0))} :
          /\ books' = r.rows
          /\ onLoan' = Loans(onLoan, threads[t].book_id.val, r.ret = True, FALSE)
          /\ threads' = [threads EXCEPT ![t].pc = "done", ![t].ret = r.ret,
                                        ![t].exc = r.exc]
    /\ UNCHANGED <<seq, locked, issued, last, schema>>

\* get_stats by caller t, one statement at a time: each SELECT reads the
\* table as it is when it runs.
get_stats_total(t) ==
    /\ threads[t].pc = "idle"
    /\ threads' = [threads EXCEPT ![t] =
                      [Idle EXCEPT !.op = "get_stats", !.pc = "available",
                                   !.counts = <<SelectCount(books)>>]]
    /\ UNCHANGED <<books, seq, locked, issued, onLoan, last, schema>>

get_stats_available(t) ==
    /\ threads[t].pc = "available"
    /\ threads' = [threads EXCEPT
                      ![t].pc = "borrowed",
                      ![t].counts = Append(@, SelectCountWhereAvailable(books, 1))]
    /\ UNCHANGED <<books, seq, locked, issued, onLoan, last, schema>>

get_stats_borrowed(t) ==
    /\ threads[t].pc = "borrowed"
    /\ LET borrowed == SelectCountWhereAvailable(books, 0)
       IN  threads' = [threads EXCEPT
                          ![t].pc = "done",
                          ![t].counts = Append(@, borrowed),
                          ![t].ret = dict([total |-> threads[t].counts[1],
                                           available |-> threads[t].counts[2],
                                           borrowed |-> borrowed])]
    /\ UNCHANGED <<books, seq, locked, issued, onLoan, last, schema>>

\* The caller has what its call returned and is free to call again.
returned(t) ==
    /\ threads[t].pc = "done"
    /\ threads' = [threads EXCEPT ![t] = Idle]
    /\ UNCHANGED <<books, seq, locked, issued, onLoan, last, schema>>

\* The collector closes the connection add_book abandoned: its transaction
\* is rolled back and the write lock released.
collect ==
    /\ locked
    /\ locked' = FALSE
    /\ UNCHANGED <<books, seq, issued, onLoan, last, schema, threads>>

(***************************************************************************)
(* The callers.  Spec: any call at any time, several books in the table.   *)
(* SpecEdit: a caller that keeps at most one book in the table (it calls   *)
(* add_book with a title and an author only when the table is empty) and   *)
(* updates that book or the id 0 that no book has, with every column       *)
(* varying.                                                                *)
(***************************************************************************)
Next ==
    \/ create_table
    \/ \E a \in LibraryAddArgs :
          add_book(a.title, a.author, a.genre, a.description, a.available)
    \/ \E book_id \in BookIdArgs : get_book_by_id(book_id)
    \/ \E book_id \in BookIdArgs, available \in LibraryFlagArgs :
          update_availability(book_id, available)
    \/ \E book_id \in BookIdArgs : borrow_book(book_id)
    \/ \E book_id \in BookIdArgs : return_book(book_id)
    \/ \E book_id \in BookIdArgs, args \in LibraryUpdateArgs :
          update_book(book_id, args)
    \/ \E book_id \in BookIdArgs : delete_book(book_id)
    \/ get_all_books
    \/ get_available_books
    \/ get_stats
    \/ \E search_term \in LibrarySearchArgs : search_books(search_term)
    \/ collect

Spec == Init /\ [][Next]_vars

NextEdit ==
    \/ create_table
    \/ \E a \in EditAddArgs :
          /\ DOMAIN books = {} \/ ViolatesNotNull(a)
          /\ add_book(a.title, a.author, a.genre, a.description, a.available)
    \/ \E book_id \in BookIdArgs : get_book_by_id(book_id)
    \/ \E book_id \in BookIdArgs, available \in EditFlagArgs :
          update_availability(book_id, available)
    \/ \E book_id \in BookIdArgs : borrow_book(book_id)
    \/ \E book_id \in BookIdArgs : return_book(book_id)
    \/ \E book_id \in {0} \cup DOMAIN books, args \in EditUpdateArgs :
          update_book(book_id, args)
    \/ \E book_id \in BookIdArgs : delete_book(book_id)
    \/ get_all_books
    \/ get_available_books
    \/ get_stats
    \/ \E search_term \in SearchTermArgs : search_books(search_term)
    \/ collect

SpecEdit == Init /\ [][NextEdit]_vars

\* Callers that run at the same time: two that call borrow_book, one of
\* them get_stats too, whose statements interleave, and one that adds and
\* deletes books, each of its calls between two statements of the others.
NextConcurrent ==
    \/ \E a \in ConcurrentAddArgs :
          add_book(a.title, a.author, a.genre, a.description, a.available)
    \/ \E book_id \in 1..MaxId : delete_book(book_id)
    \/ \E t \in Threads, book_id \in 1..MaxId :
          borrow_book_get_book_by_id(t, book_id)
    \/ \E t \in Threads : borrow_book_update_availability(t)
    \/ \E t \in StatsThreads : get_stats_total(t)
    \/ \E t \in Threads : get_stats_available(t)
    \/ \E t \in Threads : get_stats_borrowed(t)
    \/ \E t \in Threads : returned(t)

SpecConcurrent == Init /\ [][NextConcurrent]_vars

(***************************************************************************)
(* What the claims are stated with.  A step is a call when it changes      *)
(* "last" (collect does not); the store is the table and its counter.      *)
(***************************************************************************)
IsCall(op) == last' # last /\ last'.op = op
Target == last'.args.book_id.val
StoreUnchanged == books' = books /\ seq' = seq
Supplied(args) == {Columns[i] : i \in {j \in 1..Len(Columns) : args[Columns[j]] # None}}
Removed(b, id) == [i \in DOMAIN b \ {id} |-> b[i]]

\* What borrow_book must do from table b: refuse a missing or a borrowed
\* book, otherwise clear the flag.
BorrowContract ==
    LET exists == Target \in DOMAIN books
    IN  /\ ~exists => last'.ret = False /\ StoreUnchanged
        /\ exists /\ books[Target].available = int(0) =>
               last'.ret = False /\ StoreUnchanged
        /\ exists /\ books[Target].available # int(0) =>
               /\ last'.ret = True
               /\ books' = [books EXCEPT ![Target].available = int(0)]
               /\ seq' = seq
        /\ (last.op = "borrow_book" /\ last.ret = True
              /\ last.args.book_id = last'.args.book_id) => last'.ret = False

\* C1: borrow_book(id) returns False and leaves the store alone when no row
\* has that id or when the row's flag is 0; otherwise it sets the flag to 0
\* and returns True; so a borrow right after a successful borrow of the same
\* id returns False.
C1_BorrowChecksInOrder == [][IsCall("borrow_book") => BorrowContract]_vars

\* C1, where no abandoned connection holds the write lock.
C1_BorrowChecksInOrder_Unlocked ==
    [][IsCall("borrow_book") /\ ~locked => BorrowContract]_vars

ReturnContract ==
    LET exists == Target \in DOMAIN books
    IN  /\ last'.ret = bool(exists)
        /\ exists => books' = [books EXCEPT ![Target].available = int(1)]
        /\ ~exists => books' = books
        /\ seq' = seq

\* C2: return_book(id) sets the flag of row id to 1 whatever it was and
\* returns True; it returns False exactly when no row has that id, and then
\* the store is unchanged.
C2_ReturnSetsAvailable == [][IsCall("return_book") => ReturnContract]_vars

\* C2, where no abandoned connection holds the write lock.
C2_ReturnSetsAvailable_Unlocked ==
    [][IsCall("return_book") /\ ~locked => ReturnContract]_vars

\* C3: the available column of every row is 0 or 1.
C3_AvailableIsZeroOrOne ==
    \A id \in DOMAIN books : books[id].available \in {int(0), int(1)}

IdOps ==
    {"get_book_by_id", "update_availability", "borrow_book", "return_book",
     "update_book", "delete_book"}

\* C4: every method that takes a book_id, called with an id no row has,
\* returns False (get_book_by_id: None), raises nothing and leaves the store
\* unchanged.
C4_NotFoundIsFalseOrAbsent ==
    [][\A op \in IdOps :
         IsCall(op) /\ Target \notin DOMAIN books =>
            /\ last'.exc = ""
            /\ last'.ret = IF op = "get_book_by_id" THEN None ELSE False
            /\ StoreUnchanged]_vars

\* C4 for the methods other than update_book, where no abandoned connection
\* holds the write lock.
C4_NotFoundIsFalseOrAbsent_Unlocked ==
    [][\A op \in IdOps \ {"update_book"} :
         IsCall(op) /\ Target \notin DOMAIN books /\ ~locked =>
            /\ last'.exc = ""
            /\ last'.ret = IF op = "get_book_by_id" THEN None ELSE False
            /\ StoreUnchanged]_vars

UpdateReturnsTrue ==
    /\ last'.ret = True
    /\ Target \notin DOMAIN books => StoreUnchanged

\* C5: update_book with at least one field supplied returns True whether or
\* not a row has the id; when none has, the store is unchanged.
C5_UpdateReturnsTrue ==
    [][IsCall("update_book") /\ Supplied(last'.args) # {}
          => UpdateReturnsTrue]_vars

\* C5, where no abandoned connection holds the write lock.
C5_UpdateReturnsTrue_Unlocked ==
    [][IsCall("update_book") /\ Supplied(last'.args) # {} /\ ~locked
          => UpdateReturnsTrue]_vars

\* C6: update_book with no field supplied returns False and changes nothing
\* in the store, whether or not a row has the id.
C6_UpdateNothingIsFalse ==
    [][IsCall("update_book") /\ Supplied(last'.args) = {} =>
          last'.ret = False /\ last'.exc = "" /\ StoreUnchanged]_vars

\* C6's case: update_book with no field on an existing row has returned False.
C6_Witness ==
    /\ last.op = "update_book"
    /\ Supplied(last.args) = {}
    /\ last.args.book_id.val \in DOMAIN books
    /\ last.ret = False

UpdateContract ==
    /\ DOMAIN books' = DOMAIN books
    /\ seq' = seq
    /\ \A i \in 1..Len(Columns) :
          books'[Target][Columns[i]] =
             IF last'.args[Columns[i]] # None
             THEN last'.args[Columns[i]]
             ELSE books[Target][Columns[i]]

\* C7: update_book on an existing row sets each supplied column to the
\* supplied value and leaves every other column of the row as it was.
C7_UpdateChangesSupplied ==
    [][IsCall("update_book") /\ Target \in DOMAIN books => UpdateContract]_vars

\* C7, where no abandoned connection holds the write lock.
C7_UpdateChangesSupplied_Unlocked ==
    [][IsCall("update_book") /\ Target \in DOMAIN books /\ ~locked
          => UpdateContract]_vars

DeleteContract ==
    /\ IsCall("delete_book") =>
          /\ last'.ret = bool(Target \in DOMAIN books)
          /\ books' = Removed(books, Target)
          /\ seq' = seq
    /\ (last.op = "delete_book" /\ IsCall("get_book_by_id")
          /\ last'.args.book_id = last.args.book_id) => last'.ret = None
    /\ (last.op = "delete_book" /\ IsCall("delete_book")
          /\ last'.args.book_id = last.args.book_id) => last'.ret = False

\* C8: delete_book(id) returns True exactly when a row had the id, and
\* removes it; a get_book_by_id(id) right after it returns None and a second
\* delete_book(id) returns False; with no such row the store is unchanged.
C8_DeleteRemoves == [][DeleteContract]_vars

\* C8, where no abandoned connection holds the write lock at either call.
C8_DeleteRemoves_Unlocked ==
    [][(last.op = "delete_book" => last.exc = "") /\ ~locked
          => DeleteContract]_vars

\* C9: every id add_book returns is greater than every id it returned
\* before, deleted or not, and every row's id is one add_book returned.
C9_IdsNeverReused ==
    [][/\ IsCall("add_book") /\ last'.exc = "" =>
             /\ \A i \in issued : last'.ret.val > i
             /\ last'.ret.val \in DOMAIN books' \ DOMAIN books
       /\ DOMAIN books' \subseteq issued']_vars

\* C9's case: add_book has returned an id greater than one it returned
\* before whose row is deleted.
C9_Witness ==
    /\ last.op = "add_book"
    /\ last.exc = ""
    /\ \E i \in issued : i \notin DOMAIN books /\ i < last.ret.val

\* C10: add_book with title or author None raises instead of returning an
\* id, adds no row and leaves the store unchanged.
C10_CreateRejectsNull ==
    [][IsCall("add_book")
          /\ (last'.args.title = None \/ last'.args.author = None) =>
             /\ last'.exc # ""
             /\ last'.ret = None
             /\ StoreUnchanged
             /\ issued' = issued]_vars

\* C10's case: add_book with a title and no author has raised.
C10_Witness ==
    /\ last.op = "add_book"
    /\ last.args.title # None
    /\ last.args.author = None
    /\ last.exc = "IntegrityError"

\* C14: LibraryDatabase(db_name) on a file that has the table books raises
\* nothing, leaves the file with the same tables, and leaves every row and
\* the id counter as they were.
C14_InitIsIdempotent ==
    [][IsCall("__init__") =>
          /\ last'.exc = ""
          /\ schema' = schema
          /\ Cardinality({n \in schema' : n = "books"}) = 1
          /\ StoreUnchanged]_vars

\* C14's case: the store has been constructed again on a file with rows.
C14_Witness ==
    /\ last.op = "__init__"
    /\ last.tick = 1
    /\ DOMAIN books # {}

\* C11: get_book_by_id(id) right after an add_book that returned id returns
\* the row (id, title, author, genre, description, available) of the values
\* add_book was called with; a genre or description that was None is None.
C11_RoundTrip ==
    [][/\ last.op = "add_book" /\ last.exc = ""
       /\ IsCall("get_book_by_id") /\ last'.args.book_id = last.ret
       => /\ last'.ret # None
          /\ Item(last'.ret, 0) = last.ret
          /\ \A i \in 1..Len(Columns) :
                /\ PyEq(Item(last'.ret, i), last.args[Columns[i]])
                /\ last.args[Columns[i]] = None => Item(last'.ret, i) = None]_vars

\* C11's case: a book added with a genre, without a description and with
\* available False has been fetched by the id add_book returned.
C11_Witness ==
    /\ last.op = "get_book_by_id"
    /\ last.ret # None
    /\ Item(last.ret, 3) # None
    /\ Item(last.ret, 4) = None
    /\ Item(last.ret, 5) = int(0)
    /\ issued = {last.args.book_id.val}

\* The flag as borrow_book reads it: a book is borrowed when it is 0.
IsAvailable(row) == row.available # int(0)

StatsContract ==
    /\ last'.exc = ""
    /\ last'.ret.val.total = int(Cardinality(DOMAIN books))
    /\ last'.ret.val.available =
          int(Cardinality({id \in DOMAIN books : IsAvailable(books[id])}))
    /\ last'.ret.val.borrowed =
          int(Cardinality({id \in DOMAIN books : ~IsAvailable(books[id])}))
    /\ StoreUnchanged

C12_StatsCountsRows_Boolean ==
    [][IsCall("get_stats") /\ C3_AvailableIsZeroOrOne => StatsContract]_vars

\* term is a substring of text, letters compared without regard to case.
Contains(text, term) ==
    \E i \in 0..(Len(text) - Len(term)) :
       \A j \in 1..Len(term) : Lower(text[i + j]) = Lower(term[j])

Matching(term) ==
    {id \in DOMAIN books : \/ Contains(books[id].title.val, term)
                           \/ Contains(books[id].author.val, term)}

SearchContract ==
    LET found == last'.ret.val
    IN  /\ last'.exc = ""
        /\ {found[k] : k \in 1..Len(found)} =
              {RowTuple(id, books[id]) : id \in Matching(last'.args.search_term.val)}
        /\ Len(found) = Cardinality(Matching(last'.args.search_term.val))

\* C13: search_books(term) returns exactly the rows whose title or author
\* contains term as a substring, letters compared without regard to case,
\* each row once; with the empty term that is every row.
C13_SearchIsSubstring == [][IsCall("search_books") => SearchContract]_vars

\* C13 for the terms that hold neither "%" nor "_".
C13_SearchIsSubstring_NoWildcard ==
    [][/\ IsCall("search_books")
       /\ \A k \in 1..Len(last'.args.search_term.val) :
             last'.args.search_term.val[k] \notin {"%", "_"}
       => SearchContract]_vars

\* C16: every call has closed every connection it opened by the time it
\* returns or raises.
C16_ConnectionsReleased == last.closed = last.opened

\* C16 for the calls that return after their last statement.
C16_ConnectionsReleased_Completed ==
    (last.exc = "" /\ ~(last.op = "update_book" /\ Supplied(last.args) = {}))
        => last.closed = last.opened

\* C17: borrow_book(id) returns True only for an id that is not on loan:
\* after it has returned True for an id, it returns True for that id again
\* only after return_book, update_availability or update_book has written
\* the flag of the row; delete_book and add_book never take an id off loan.
C17_NoDoubleBorrow ==
    [][IsCall("borrow_book") /\ last'.ret = True => Target \notin onLoan]_vars

\* C17's case: a borrowed book has been deleted, another book added, and
\* borrow_book called on the id of the deleted one.
C17_Witness ==
    /\ last.op = "borrow_book"
    /\ last.args.book_id.val \in onLoan
    /\ last.args.book_id.val \notin DOMAIN books
    /\ \E id \in DOMAIN books : id > last.args.book_id.val

\* C19: every row has a title and an author that are not None, whatever
\* add_book and update_book were called with.
C19_TitleAndAuthorNotNull ==
    \A id \in DOMAIN books :
       books[id].title # None /\ books[id].author # None

\* C19's case: update_book with title None and an author has returned True
\* on an existing row.
C19_Witness ==
    /\ last.op = "update_book"
    /\ last.args.title = None
    /\ last.args.author # None
    /\ last.ret = True
    /\ last.args.book_id.val \in DOMAIN books

Mutations ==
    {"update_availability", "borrow_book", "return_book", "update_book",
     "delete_book"}
Reads ==
    {"get_all_books", "get_book_by_id", "search_books", "get_available_books",
     "get_stats"}
RowsKept(ids) == \A id \in ids : id \in DOMAIN books' /\ books'[id] = books[id]

\* C20: a call of update_availability, borrow_book, return_book,
\* update_book or delete_book on an id leaves every row with another id as
\* it was and gives no row a new id; add_book leaves every row there was as
\* it was; the methods that read leave the table and the id counter as
\* they were.
C20_Frame ==
    [][/\ \A op \in Mutations :
             IsCall(op) => /\ RowsKept(DOMAIN books \ {Target})
                           /\ DOMAIN books' \subseteq DOMAIN books
                           /\ op # "delete_book" => DOMAIN books' = DOMAIN books
                           /\ seq' = seq
       /\ IsCall("add_book") => RowsKept(DOMAIN books)
       /\ \A op \in Reads : IsCall(op) => StoreUnchanged]_vars

\* C20's case: update_availability has written the flag of one row while
\* another row has another flag.
C20_Witness ==
    /\ last.op = "update_availability"
    /\ last.ret = True
    /\ \E id \in DOMAIN books \ {last.args.book_id.val} :
          books[id].available # last.args.available

\* Caller t takes the step from pc from to pc to.
Steps(t, from, to) == threads[t].pc = from /\ threads'[t].pc = to

\* C15: borrow_book reads the row and writes the flag in two steps.  The
\* write of a caller that has read the book as available returns True
\* whenever the row is still there, whatever the flag is by then, and
\* leaves the flag 0 and everything else as it was; so two callers that
\* have both read the same book as available both return True.
C15_BorrowIsReadThenWrite ==
    [][\A t \in Threads :
         Steps(t, "update_availability", "done") =>
            LET id == threads[t].book_id.val
            IN  /\ Item(threads[t].book, 5) # int(0)
                /\ threads'[t].exc = ""
                /\ threads'[t].ret = bool(id \in DOMAIN books)
                /\ id \in DOMAIN books =>
                      books' = [books EXCEPT ![id].available = int(0)]
                /\ id \notin DOMAIN books => books' = books
                /\ seq' = seq]_vars

\* C15's case: both callers have returned True from borrow_book on the
\* book that the last call of the third caller added, and its row is as
\* added but for the flag, which is 0.
C15_Witness ==
    /\ last.op = "add_book"
    /\ last.exc = ""
    /\ \A t \in Threads :
          /\ threads[t].op = "borrow_book"
          /\ threads[t].pc = "done"
          /\ threads[t].ret = True
          /\ threads[t].book_id = last.ret
          /\ Item(threads[t].book, 5) = int(1)
    /\ last.ret.val \in DOMAIN books
    /\ \A c \in DOMAIN books[last.ret.val] :
          books[last.ret.val][c] = IF c = "available" THEN int(0)
                                   ELSE Bind(last.args[c])

\* The counts of get_stats add up on table b.
AddsUp(b) ==
    SelectCount(b).val = SelectCountWhereAvailable(b, 1).val
                           + SelectCountWhereAvailable(b, 0).val

\* C18: get_stats takes its three counts in three steps, each count that
\* of the table at its step, and in every state of the store every flag is
\* 0 or 1 and the three counts of that state add up; what get_stats returns
\* need not.
C18_StatsIsThreeReads ==
    [][/\ C3_AvailableIsZeroOrOne' /\ AddsUp(books')
       /\ \A t \in Threads :
             /\ Steps(t, "idle", "available") =>
                   threads'[t].counts = <<int(Cardinality(DOMAIN books))>>
             /\ Steps(t, "available", "borrowed") =>
                   threads'[t].counts[2] =
                      int(Cardinality({id \in DOMAIN books :
                                         books[id].available = int(1)}))
             /\ Steps(t, "borrowed", "done") =>
                   /\ threads'[t].ret.val.borrowed =
                         int(Cardinality({id \in DOMAIN books :
                                            books[id].available = int(0)}))
                   /\ threads'[t].ret.val.total = threads[t].counts[1]
                   /\ threads'[t].ret.val.available = threads[t].counts[2]]_vars

\* C18's case: get_stats has returned a total that is not the sum of its
\* available and its borrowed.
C18_Witness ==
    \E t \in Threads :
       /\ threads[t].op = "get_stats"
       /\ threads[t].pc = "done"
       /\ threads[t].ret.val.total.val #
             threads[t].ret.val.available.val + threads[t].ret.val.borrowed.val

====
